---------------------------- MODULE Spec2Model ----------------------------
(***************************************************************************)
(* Account canisters of avozda/unique-icp-canister.                        *)
(*                                                                         *)
(* Two canisters are modelled, one per deployment (variable canister):     *)
(*   "uuid"      src/src/index.ts     accounts keyed by a generated uuid   *)
(*   "principal" src/unnamed/part_000 accounts keyed by the caller's       *)
(*                                    Principal, with an admin and reclaim *)
(* Every exported function is one atomic action (the host runs one message *)
(* at a time).  Each handler is a pure operator <name>Impl from the store  *)
(* and the call's inputs to [store, result]; the action of the same name   *)
(* as the source function draws the inputs and applies it.                 *)
(***************************************************************************)
EXTENDS Integers, Sequences, FiniteSets, TLC

VARIABLES
    canister,       \* which canister this deployment runs
    userStorage,    \* the StableBTreeMap: key -> User
    adminPrincipal, \* part_000: the Principal object init() stored
    now,            \* the host clock read by ic.time()
    last,           \* the last call: [op, caller, args, result]
    everKeys,       \* history: every key that has held a record
    issued,         \* history: per account, the last two tokens
                    \* requestPasswordReset returned for it since the last
                    \* resetPassword call
    chain,          \* history: <<"requested", t>> right after a
                    \* requestPasswordReset returned t, <<"redeemed", t>>
                    \* right after the resetPassword(t, _) that followed it
                    \* succeeded, <<"none">> otherwise
    tracking        \* whether the history issued is kept (SpecTokens)

vars == <<canister, userStorage, adminPrincipal, now, last, everKeys, issued,
          chain, tracking>>

---------------------------------------------------------------------------
(* Bounds of the model *)

\* uuids uuidv4() can return are 1..MaxIds; their numeric order stands for the
\* byte order of the keys in the StableBTreeMap
MaxIds == 2
\* the host clock runs over 0..MaxTime
MaxTime == 1

Ids == 1..MaxIds
Times == 0..MaxTime

\* strings callers send; "" is the empty text, which is falsy in updateUser
Usernames == {"ann", "bob"}
Emails == {"a@x", "b@x"}
Passwords == {"pw1", "pw2"}
\* values generateResetToken() can return (two random draws can be equal)
Tokens == {"tokA", "tokB"}

\* index.ts UserPayload values sent to registerUser and to updateUser
RegisterPayloads ==
    { [username |-> "ann", email |-> "a@x", password |-> "pw1"],
      [username |-> "ann", email |-> "a@x", password |-> "pw2"] }
UpdatePayloads ==
    { [username |-> "", email |-> "", password |-> "pw2"],
      [username |-> "ann", email |-> "a@x", password |-> ""] }
\* an updateUser payload that changes the email alone
EmailPayloads ==
    { [username |-> "", email |-> "b@x", password |-> ""] }

\* part_000 UserPayload values
Secrets == {"s1", "s2"}
PrincipalPayloads ==
    { [username |-> "ann", email |-> "a@x", secret |-> x] : x \in Secrets }

\* textual form of the principals that call the canister: the anonymous one
\* and two others, listed in the byte order of the keys in the StableBTreeMap
Anonymous == "2vxsx-fae"
UserA == "rrkah-fqaaa-aaaaa-aaaaq-cai"
UserB == "ryjl3-tyaaa-aaaaa-aaaba-cai"
PrincipalOrder == <<Anonymous, UserA, UserB>>
Principals == {PrincipalOrder[i] : i \in 1..Len(PrincipalOrder)}
\* the admin texts a deployer passes to init
AdminChoices == {UserA, UserB}

---------------------------------------------------------------------------
(* azle values *)

\* Opt<T>: Opt.None is the empty sequence, Opt.Some(v) the sequence <<v>>
None == <<>>
Some(v) == <<v>>

\* Result<T, string>: Result.Ok(v) and Result.Err(message).  A message is the
\* sequence of the parts of its template string.
Ok(v) == [ok |-> TRUE, val |-> v]
Err(m) == [ok |-> FALSE, val |-> m]

\* the value a handler returns together with the store it leaves
Ret(store, result) == [store |-> store, result |-> result]

---------------------------------------------------------------------------
(* StableBTreeMap<K, V> *)

RECURSIVE SortedKeys(_)
\* the keys of a set of uuids in ascending order
SortedKeys(S) ==
    IF S = {} THEN <<>>
    ELSE LET m == CHOOSE x \in S : \A y \in S : x <= y
         IN <<m>> \o SortedKeys(S \ {m})

\* map.get(key): Opt<V>
MapGet(store, key) ==
    IF key \in DOMAIN store THEN Some(store[key]) ELSE None

\* map.insert(key, value): an upsert
MapInsert(store, key, value) ==
    [k \in DOMAIN store \cup {key} |-> IF k = key THEN value ELSE store[k]]

\* map.remove(key): the map without key
MapRemove(store, key) ==
    [k \in DOMAIN store \ {key} |-> store[k]]

\* map.values() of the uuid-keyed map: the users in key order
values(store) ==
    LET ks == SortedKeys(DOMAIN store)
    IN [i \in 1..Len(ks) |-> store[ks[i]]]

\* Array.prototype.find, given for each element in turn whether the callback
\* holds of it: the index of the first element it holds of, 0 if none
FindIndex(hits) ==
    IF \E i \in 1..Len(hits) : hits[i]
    THEN CHOOSE i \in 1..Len(hits) : hits[i] /\ \A j \in 1..(i-1) : ~hits[j]
    ELSE 0

---------------------------------------------------------------------------
(* src/src/index.ts: handlers *)

NotFoundMsg(id) == <<"User with id=", id, " not found">>

getUsersImpl(store) == Ret(store, Ok(values(store)))

getUserImpl(store, id) ==
    LET got == MapGet(store, id)
    IN IF got # None THEN Ret(store, Ok(got[1]))
       ELSE Ret(store, Err(NotFoundMsg(id)))

\* registerUser gone wrong: the record is inserted under a key other than its
\* id (a second uuidv4() for the key)
registerUserImpl_OtherKey(store, payload, uuid, time) ==
    LET user == [id |-> uuid, createdAt |-> time, resetToken |-> None,
                 username |-> payload.username, email |-> payload.email,
                 password |-> payload.password]
        key == CHOOSE k \in Ids : k # uuid
    IN Ret(MapInsert(store, key, user), Ok(user))

\* registerUser gone wrong: the key is the uuid, the id field of the record
\* another value
registerUserImpl_OtherId(store, payload, uuid, time) ==
    LET user == [id |-> CHOOSE k \in Ids : k # uuid,
                 createdAt |-> time, resetToken |-> None,
                 username |-> payload.username, email |-> payload.email,
                 password |-> payload.password]
    IN Ret(MapInsert(store, uuid, user), Ok(user))

\* { id: uuidv4(), createdAt: ic.time(), resetToken: Opt.None, ...payload }
registerUserImpl(store, payload, uuid, time) ==
    LET user == [id |-> uuid, createdAt |-> time, resetToken |-> None,
                 username |-> payload.username, email |-> payload.email,
                 password |-> payload.password]
    IN Ret(MapInsert(store, user.id, user), Ok(user))

\* loginUser gone wrong: the callback compares the username only
loginUserImpl_UsernameOnly(store, username, password) ==
    LET vs == values(store)
        hits == [j \in 1..Len(vs) |-> vs[j].username = username]
        i == FindIndex(hits)
    IN IF i # 0 THEN Ret(store, Ok(vs[i]))
       ELSE Ret(store, Err(<<"Invalid username or password">>))

loginUserImpl(store, username, password) ==
    LET vs == values(store)
        hits == [j \in 1..Len(vs) |->
                    vs[j].username = username /\ vs[j].password = password]
        i == FindIndex(hits)
    IN IF i # 0 THEN Ret(store, Ok(vs[i]))
       ELSE Ret(store, Err(<<"Invalid username or password">>))

\* deleteUser gone wrong: the record is read and returned, never removed
deleteUserImpl_GetOnly(store, id) ==
    LET got == MapGet(store, id)
    IN IF got # None THEN Ret(store, Ok(got[1]))
       ELSE Ret(store, Err(NotFoundMsg(id)))

deleteUserImpl(store, id) ==
    LET got == MapGet(store, id)
    IN IF got # None THEN Ret(MapRemove(store, id), Ok(got[1]))
       ELSE Ret(store, Err(NotFoundMsg(id)))

\* a || b on strings: the empty string is falsy
OrElse(a, b) == IF a # "" THEN a ELSE b

updateUserImpl(store, id, payload) ==
    LET got == MapGet(store, id)
    IN IF got # None
       THEN LET user == got[1]
                updatedUser ==
                    [user EXCEPT !.username = OrElse(payload.username, user.username),
                                 !.email = OrElse(payload.email, user.email),
                                 !.password = OrElse(payload.password, user.password)]
            IN Ret(MapInsert(store, id, updatedUser), Ok(updatedUser))
       ELSE Ret(store, Err(NotFoundMsg(id)))

\* changePassword made to clear the reset token along with the password
changePasswordImpl_ClearsToken(store, id, newPassword) ==
    LET got == MapGet(store, id)
    IN IF got # None
       THEN LET updatedUser == [got[1] EXCEPT !.password = newPassword,
                                              !.resetToken = None]
            IN Ret(MapInsert(store, id, updatedUser), Ok(updatedUser))
       ELSE Ret(store, Err(NotFoundMsg(id)))

changePasswordImpl(store, id, newPassword) ==
    LET got == MapGet(store, id)
    IN IF got # None
       THEN LET updatedUser == [got[1] EXCEPT !.password = newPassword]
            IN Ret(MapInsert(store, id, updatedUser), Ok(updatedUser))
       ELSE Ret(store, Err(NotFoundMsg(id)))

\* requestPasswordReset gone wrong: filter in place of find, the token is
\* set on every record with the email
requestPasswordResetImpl_AllMatches(store, email, token) ==
    LET vs == values(store)
        hits == [j \in 1..Len(vs) |-> vs[j].email = email]
        i == FindIndex(hits)
    IN IF i # 0
       THEN Ret([k \in DOMAIN store |->
                    IF store[k].email = email
                    THEN [store[k] EXCEPT !.resetToken = Some(token)]
                    ELSE store[k]],
                Ok(token))
       ELSE Ret(store, Err(<<"User with the specified email not found">>))

\* requestPasswordReset gone wrong: the spread comes last,
\* { resetToken: Opt.Some(resetToken), ...user }, so the record keeps the
\* resetToken it had
requestPasswordResetImpl_SpreadLast(store, email, token) ==
    LET vs == values(store)
        hits == [j \in 1..Len(vs) |-> vs[j].email = email]
        i == FindIndex(hits)
    IN IF i # 0
       THEN Ret(MapInsert(store, vs[i].id, vs[i]), Ok(token))
       ELSE Ret(store, Err(<<"User with the specified email not found">>))

\* token is the value generateResetToken() returns in this call
requestPasswordResetImpl(store, email, token) ==
    LET vs == values(store)
        hits == [j \in 1..Len(vs) |-> vs[j].email = email]
        i == FindIndex(hits)
    IN IF i # 0
       THEN Ret(MapInsert(store, vs[i].id, [vs[i] EXCEPT !.resetToken = Some(token)]),
                Ok(token))
       ELSE Ret(store, Err(<<"User with the specified email not found">>))

\* resetPassword gone wrong: every record that holds the token is reset
resetPasswordImpl_AllHolders(store, resetToken, newPassword) ==
    LET vs == values(store)
        hits == [j \in 1..Len(vs) |->
                    vs[j].resetToken # None /\ vs[j].resetToken[1] = resetToken]
        i == FindIndex(hits)
    IN IF i # 0
       THEN LET updatedUser == [vs[i] EXCEPT !.password = newPassword,
                                             !.resetToken = None]
            IN Ret([k \in DOMAIN store |->
                       IF store[k].resetToken = Some(resetToken)
                       THEN [store[k] EXCEPT !.password = newPassword,
                                             !.resetToken = None]
                       ELSE store[k]],
                   Ok(updatedUser))
       ELSE Ret(store, Err(<<"Invalid or expired reset token">>))

resetPasswordImpl(store, resetToken, newPassword) ==
    LET vs == values(store)
        hits == [j \in 1..Len(vs) |->
                    vs[j].resetToken # None /\ vs[j].resetToken[1] = resetToken]
        i == FindIndex(hits)
    IN IF i # 0
       THEN LET updatedUser == [vs[i] EXCEPT !.password = newPassword,
                                             !.resetToken = None]
            IN Ret(MapInsert(store, vs[i].id, updatedUser), Ok(updatedUser))
       ELSE Ret(store, Err(<<"Invalid or expired reset token">>))

---------------------------------------------------------------------------
(* src/unnamed/part_000: handlers *)

\* A Principal is a JavaScript object: text is its value, ref the object it is.
\* Principal.fromText and ic.caller() each build a new object.
NewPrincipal(text, ref) == [text |-> text, ref |-> ref]

\* Principal.fromText(text), called by init while the canister is installed
fromText(text) == NewPrincipal(text, "made by fromText")

\* ic.caller(): a Principal object built for the message being run
ic_caller(text) == NewPrincipal(text, "made by ic.caller")

\* principal.toString()
toString(principal) == principal.text

\* a === b on two objects: true only when both are the same object
StrictEquals(a, b) == a.ref = b.ref

\* init(admin)
initImpl(admin) == fromText(admin)

\* map.values() of the principal-keyed map: the users in key order
p_values(store) ==
    LET ks == SelectSeq(PrincipalOrder, LAMBDA k : k \in DOMAIN store)
    IN [i \in 1..Len(ks) |-> store[ks[i]]]

p_getUsersImpl(store) == Ret(store, Ok(p_values(store)))

p_getUserImpl(store, id) ==
    LET got == MapGet(store, toString(fromText(id)))
    IN IF got # None THEN Ret(store, Ok(got[1]))
       ELSE Ret(store, Err(<<"User dont have an account registered yet">>))

\* registerUser gone wrong: the anonymous caller is not turned away
p_registerUserImpl_NoAnonymousCheck(store, caller, payload, time) ==
    LET user == [createdAt |-> time, username |-> payload.username,
                 email |-> payload.email, secret |-> payload.secret]
    IN Ret(MapInsert(store, toString(caller), user), Ok(user))

p_registerUserImpl(store, caller, payload, time) ==
    IF toString(caller) = "2vxsx-fae"
    THEN Ret(store, Err(<<"Anonymous users are not allowed to register accounts">>))
    ELSE LET user == [createdAt |-> time, username |-> payload.username,
                      email |-> payload.email, secret |-> payload.secret]
         IN Ret(MapInsert(store, toString(caller), user), Ok(user))

\* loginUser gone wrong: it writes a session flag into the caller's record
p_loginUserImpl_Session(store, caller) ==
    LET got == MapGet(store, toString(caller))
    IN IF got = None THEN Ret(store, Err(<<"You dont have an account yet">>))
       ELSE LET user == [createdAt |-> got[1].createdAt,
                         username |-> got[1].username, email |-> got[1].email,
                         secret |-> got[1].secret, loggedIn |-> TRUE]
            IN Ret(MapInsert(store, toString(caller), user), Ok(user))

p_loginUserImpl(store, caller) ==
    LET got == MapGet(store, toString(caller))
    IN IF got = None THEN Ret(store, Err(<<"You dont have an account yet">>))
       ELSE Ret(store, Ok(got[1]))

\* deleteUser gone wrong: the caller is not compared with the admin
p_deleteUserImpl_NoAdminCheck(store, caller, admin, id) ==
    LET got == MapGet(store, toString(fromText(id)))
    IN IF got # None THEN Ret(MapRemove(store, toString(fromText(id))), Ok(got[1]))
       ELSE Ret(store, Err(<<"User with Principal Id=", id, " not found">>))

p_deleteUserImpl(store, caller, admin, id) ==
    IF StrictEquals(caller, admin)
    THEN LET got == MapGet(store, toString(fromText(id)))
         IN IF got # None THEN Ret(MapRemove(store, toString(fromText(id))), Ok(got[1]))
            ELSE Ret(store, Err(<<"User with Principal Id=", id, " not found">>))
    ELSE Ret(store, Err(<<"You are not authorized">>))

\* reclaimAccount gone wrong: the account is moved, the old key removed
p_reclaimAccountImpl_Move(store, caller, account, secret) ==
    LET got == MapGet(store, toString(fromText(account)))
    IN IF got = None THEN Ret(store, Err(<<"This account does not exist">>))
       ELSE LET oldAccount == got[1]
            IN IF oldAccount.secret = secret
               THEN Ret(MapInsert(MapRemove(store, toString(fromText(account))),
                                  toString(caller), oldAccount),
                        Ok("Your account details have been restored, you can now login with the current Principal ID"))
               ELSE Ret(store, Err(<<"The secrets dont match, try again later">>))

\* reclaimAccount gone wrong: the copy is written before the secret is compared
p_reclaimAccountImpl_WriteFirst(store, caller, account, secret) ==
    LET got == MapGet(store, toString(fromText(account)))
    IN IF got = None THEN Ret(store, Err(<<"This account does not exist">>))
       ELSE LET oldAccount == got[1]
                written == MapInsert(store, toString(caller), oldAccount)
            IN IF oldAccount.secret = secret
               THEN Ret(written,
                        Ok("Your account details have been restored, you can now login with the current Principal ID"))
               ELSE Ret(written, Err(<<"The secrets dont match, try again later">>))

p_reclaimAccountImpl(store, caller, account, secret) ==
    LET got == MapGet(store, toString(fromText(account)))
    IN IF got = None THEN Ret(store, Err(<<"This account does not exist">>))
       ELSE LET oldAccount == got[1]
            IN IF oldAccount.secret = secret
               THEN Ret(MapInsert(store, toString(caller), oldAccount),
                        Ok("Your account details have been restored, you can now login with the current Principal ID"))
               ELSE Ret(store, Err(<<"The secrets dont match, try again later">>))

---------------------------------------------------------------------------
(* the host: one message at a time *)

NoCaller == "-"
NoTokens == [k \in Ids |-> <<>>]

\* the account requestPasswordReset(email) finds, 0 if none
RequestTarget(store, email) ==
    LET vs == values(store)
        hits == [j \in 1..Len(vs) |-> vs[j].email = email]
        i == FindIndex(hits)
    IN IF i # 0 THEN vs[i].id ELSE 0

\* the last two elements of a sequence
LastTwo(seq) == IF Len(seq) <= 2 THEN seq ELSE SubSeq(seq, Len(seq) - 1, Len(seq))

\* history of the tokens handed out, after call op(args) returned ret
NextIssued(op, args, ret) ==
    CASE op = "requestPasswordReset" /\ ret.result.ok ->
            LET k == RequestTarget(userStorage, args[1])
            IN [issued EXCEPT ![k] = LastTwo(Append(@, ret.result.val))]
      [] op = "resetPassword" -> NoTokens
      [] op = "deleteUser" /\ ret.result.ok -> [issued EXCEPT ![args[1]] = <<>>]
      [] OTHER -> issued

NextChain(op, args, ret) ==
    CASE op = "requestPasswordReset" /\ ret.result.ok -> <<"requested", ret.result.val>>
      [] op = "resetPassword" /\ ret.result.ok /\ chain = <<"requested", args[1]>> ->
            <<"redeemed", args[1]>>
      [] OTHER -> <<"none">>

\* a handler ran: the store it left and what it returned are recorded
Call(op, caller, args, ret) ==
    /\ userStorage' = ret.store
    /\ last' = [op |-> op, caller |-> caller, args |-> args, result |-> ret.result]
    /\ everKeys' = everKeys \cup DOMAIN ret.store
    /\ issued' = IF tracking THEN NextIssued(op, args, ret) ELSE issued
    /\ chain' = IF canister = "uuid" THEN NextChain(op, args, ret) ELSE chain
    /\ UNCHANGED <<canister, adminPrincipal, now, tracking>>

\* time passes between messages; ic.time() never goes back
Tick ==
    /\ now < MaxTime
    /\ now' = now + 1
    /\ UNCHANGED <<canister, userStorage, adminPrincipal, last, everKeys, issued,
                   chain, tracking>>

---------------------------------------------------------------------------
(* src/src/index.ts: the canister's methods *)

getUsers ==
    /\ canister = "uuid"
    /\ Call("getUsers", NoCaller, <<>>, getUsersImpl(userStorage))

getUser ==
    /\ canister = "uuid"
    /\ \E id \in Ids :
         Call("getUser", NoCaller, <<id>>, getUserImpl(userStorage, id))

\* uuidv4() draws 122 random bits: it is taken never to return a value that
\* is or was a key, and the new key can sort anywhere among the old ones
registerUser ==
    /\ canister = "uuid"
    /\ \E payload \in RegisterPayloads, uuid \in Ids \ everKeys :
         Call("registerUser", NoCaller, <<payload>>,
              registerUserImpl(userStorage, payload, uuid, now))

loginUser ==
    /\ canister = "uuid"
    /\ \E username \in Usernames, password \in Passwords :
         Call("loginUser", NoCaller, <<username, password>>,
              loginUserImpl(userStorage, username, password))

deleteUser ==
    /\ canister = "uuid"
    /\ \E id \in Ids :
         Call("deleteUser", NoCaller, <<id>>, deleteUserImpl(userStorage, id))

updateUser ==
    /\ canister = "uuid"
    /\ \E id \in Ids, payload \in UpdatePayloads :
         Call("updateUser", NoCaller, <<id, payload>>,
              updateUserImpl(userStorage, id, payload))

\* updateUser called to change the email
updateUserEmail ==
    /\ canister = "uuid"
    /\ \E id \in Ids, payload \in EmailPayloads :
         Call("updateUser", NoCaller, <<id, payload>>,
              updateUserImpl(userStorage, id, payload))

changePassword ==
    /\ canister = "uuid"
    /\ \E id \in Ids, newPassword \in Passwords :
         Call("changePassword", NoCaller, <<id, newPassword>>,
              changePasswordImpl(userStorage, id, newPassword))

requestPasswordReset ==
    /\ canister = "uuid"
    /\ \E email \in Emails, token \in Tokens :
         Call("requestPasswordReset", NoCaller, <<email>>,
              requestPasswordResetImpl(userStorage, email, token))

resetPassword ==
    /\ canister = "uuid"
    /\ \E resetToken \in Tokens, newPassword \in Passwords :
         Call("resetPassword", NoCaller, <<resetToken, newPassword>>,
              resetPasswordImpl(userStorage, resetToken, newPassword))

---------------------------------------------------------------------------
(* src/unnamed/part_000: the canister's methods.  A text argument that is  *)
(* no principal makes Principal.fromText throw: the message traps and      *)
(* leaves no trace, so only principals' texts are drawn.                   *)

p_getUsers ==
    /\ canister = "principal"
    /\ Call("getUsers", NoCaller, <<>>, p_getUsersImpl(userStorage))

p_getUser ==
    /\ canister = "principal"
    /\ \E id \in Principals :
         Call("getUser", NoCaller, <<id>>, p_getUserImpl(userStorage, id))

p_registerUser ==
    /\ canister = "principal"
    /\ \E c \in Principals, payload \in PrincipalPayloads :
         Call("registerUser", c, <<payload>>,
              p_registerUserImpl(userStorage, ic_caller(c), payload, now))

p_loginUser ==
    /\ canister = "principal"
    /\ \E c \in Principals :
         Call("loginUser", c, <<>>, p_loginUserImpl(userStorage, ic_caller(c)))

p_deleteUser ==
    /\ canister = "principal"
    /\ \E c \in Principals, id \in Principals :
         Call("deleteUser", c, <<id>>,
              p_deleteUserImpl(userStorage, ic_caller(c), adminPrincipal, id))

p_reclaimAccount ==
    /\ canister = "principal"
    /\ \E c \in Principals, account \in Principals, secret \in Secrets :
         Call("reclaimAccount", c, <<account, secret>>,
              p_reclaimAccountImpl(userStorage, ic_caller(c), account, secret))

---------------------------------------------------------------------------

\* index.ts is deployed with an empty map; part_000 with an empty map and the
\* admin init(admin) stored
Init ==
    /\ canister \in {"uuid", "principal"}
    /\ userStorage = << >>
    /\ IF canister = "principal"
       THEN \E admin \in AdminChoices : adminPrincipal = initImpl(admin)
       ELSE adminPrincipal = NewPrincipal(NoCaller, "none")
    /\ now = 0
    /\ last = [op |-> "deploy", caller |-> NoCaller, args |-> <<>>, result |-> Ok(<<>>)]
    /\ everKeys = {}
    /\ issued = NoTokens
    /\ chain = <<"none">>
    /\ tracking = FALSE

Next ==
    \/ Tick
    \/ getUsers
    \/ getUser
    \/ registerUser
    \/ loginUser
    \/ deleteUser
    \/ updateUser
    \/ changePassword
    \/ requestPasswordReset
    \/ resetPassword
    \/ p_getUsers
    \/ p_getUser
    \/ p_registerUser
    \/ p_loginUser
    \/ p_deleteUser
    \/ p_reclaimAccount

Spec == Init /\ [][Next]_vars

\* The reset workflow of index.ts with the history of the tokens handed out:
\* the methods that write the map.  Only registerUser reads the clock, and
\* only to set createdAt, which none of these methods reads: the clock stands
\* still here.
InitTokens ==
    /\ canister = "uuid"
    /\ userStorage = << >>
    /\ adminPrincipal = NewPrincipal(NoCaller, "none")
    /\ now = 0
    /\ last = [op |-> "deploy", caller |-> NoCaller, args |-> <<>>, result |-> Ok(<<>>)]
    /\ everKeys = {}
    /\ issued = NoTokens
    /\ chain = <<"none">>
    /\ tracking = TRUE

NextTokens ==
    \/ registerUser
    \/ deleteUser
    \/ updateUser
    \/ changePassword
    \/ requestPasswordReset
    \/ resetPassword

SpecTokens == InitTokens /\ [][NextTokens]_vars

\* The reset workflow of index.ts over accounts whose emails differ: the
\* methods that write the map, with updateUser changing emails, and the clock
\* standing still as above.
InitEmails ==
    /\ canister = "uuid"
    /\ userStorage = << >>
    /\ adminPrincipal = NewPrincipal(NoCaller, "none")
    /\ now = 0
    /\ last = [op |-> "deploy", caller |-> NoCaller, args |-> <<>>, result |-> Ok(<<>>)]
    /\ everKeys = {}
    /\ issued = NoTokens
    /\ chain = <<"none">>
    /\ tracking = FALSE

NextEmails ==
    \/ registerUser
    \/ deleteUser
    \/ updateUserEmail
    \/ requestPasswordReset
    \/ resetPassword

SpecEmails == InitEmails /\ [][NextEmails]_vars

---------------------------------------------------------------------------
(* Properties *)

\* last' records the same method, caller, arguments and result as last
SameCall ==
    /\ last'.op = last.op
    /\ last'.caller = last.caller
    /\ last'.args = last.args
    /\ last'.result.ok = last.result.ok
    /\ last'.result.val = last.result.val

\* the step is a call of op (a Tick leaves both last and the map alone)
Called(op) ==
    /\ last'.op = op
    /\ (~SameCall \/ userStorage' # userStorage)

\* C1: in the principal-keyed canister, registerUser by a caller who already
\* has a record returns an error and leaves the record under the caller's key
\* as it was.
C1_ReRegisterRejected ==
    [][ (canister = "principal" /\ Called("registerUser")
            /\ last'.caller \in DOMAIN userStorage)
        => /\ ~last'.result.ok
           /\ last'.caller \in DOMAIN userStorage'
           /\ userStorage'[last'.caller] = userStorage[last'.caller] ]_vars

\* C2: in the principal-keyed canister, deleteUser(id) by a caller other than
\* the admin given to init returns "You are not authorized", whether or not id
\* has a record, and leaves the map unchanged; and a step that removes a key
\* from the map is a deleteUser call by the admin.
C2_OnlyAdminDeletes ==
    [][ canister = "principal" =>
        /\ (Called("deleteUser") /\ last'.caller # toString(adminPrincipal))
           => /\ ~last'.result.ok
              /\ last'.result.val = <<"You are not authorized">>
              /\ userStorage' = userStorage
        /\ (DOMAIN userStorage \ DOMAIN userStorage' # {})
           => /\ last'.op = "deleteUser"
              /\ last'.caller = toString(adminPrincipal) ]_vars

\* C2 witness: a caller who is not the admin called deleteUser on a key that
\* has a record and was refused.
C2_Witness ==
    /\ canister = "principal"
    /\ last.op = "deleteUser"
    /\ last.caller # toString(adminPrincipal)
    /\ last.args[1] \in DOMAIN userStorage
    /\ ~last.result.ok

\* C3: in the principal-keyed canister, deleteUser(id) by the admin given to
\* init, for an id that has a record, returns the removed record, leaves no
\* record under id, and getUser(id) then returns the not-found error.
C3_AdminDeleteSucceeds ==
    [][ (canister = "principal" /\ Called("deleteUser")
            /\ last'.caller = toString(adminPrincipal)
            /\ last'.args[1] \in DOMAIN userStorage)
        => /\ last'.result.ok
           /\ last'.result.val = userStorage[last'.args[1]]
           /\ last'.args[1] \notin DOMAIN userStorage'
           /\ ~p_getUserImpl(userStorage', last'.args[1]).result.ok ]_vars

\* C4: a reset token is single-use: the resetPassword(t, p) that follows a
\* requestPasswordReset which returned t succeeds, and the resetPassword(t, p')
\* that follows it returns "Invalid or expired reset token" and leaves the map
\* unchanged.
C4_TokenSingleUse ==
    [][ /\ (chain[1] = "requested" /\ Called("resetPassword")
               /\ last'.args[1] = chain[2])
           => last'.result.ok
        /\ (chain[1] = "redeemed" /\ Called("resetPassword")
               /\ last'.args[1] = chain[2])
           => /\ ~last'.result.ok
              /\ last'.result.val = <<"Invalid or expired reset token">>
              /\ userStorage' = userStorage ]_vars

\* C5: in both canisters, a call that returns an error leaves the whole map as
\* it was.
C5_ErrorLeavesStore ==
    [][ ~last'.result.ok => userStorage' = userStorage ]_vars

\* C5 witness: reclaimAccount found the target, the secret did not match, and
\* the caller is not the target.
C5_Witness ==
    /\ canister = "principal"
    /\ last.op = "reclaimAccount"
    /\ ~last.result.ok
    /\ last.result.val = <<"The secrets dont match, try again later">>
    /\ last.caller # last.args[1]

\* C6: in the principal-keyed canister, registerUser by the anonymous
\* principal "2vxsx-fae" returns an error and leaves the map unchanged.
C6_AnonymousRejected ==
    [][ (canister = "principal" /\ Called("registerUser")
            /\ last'.caller = "2vxsx-fae")
        => (~last'.result.ok /\ userStorage' = userStorage) ]_vars

\* C6 witness: the anonymous principal called registerUser, on a map that
\* holds a record, and was refused.
C6_Witness ==
    /\ canister = "principal"
    /\ last.op = "registerUser"
    /\ last.caller = "2vxsx-fae"
    /\ ~last.result.ok
    /\ DOMAIN userStorage # {}

\* C7: getUsers, getUser and loginUser, in both canisters, leave the map as it
\* was, whether they succeed or fail.
C7_ReadsLeaveStore ==
    [][ \A op \in {"getUsers", "getUser", "loginUser"} :
          Called(op) => userStorage' = userStorage ]_vars

\* C7 witness: loginUser by a principal that has a record succeeded.
C7_Witness ==
    /\ canister = "principal"
    /\ last.op = "loginUser"
    /\ last.result.ok
    /\ last.caller \in DOMAIN userStorage

\* C8: in the uuid-keyed canister, registerUser(payload) returns a record r
\* with the payload's username, email and password, resetToken none and
\* createdAt the clock of the call; getUser(r.id) on the map it leaves returns
\* r, and so does a getUser(r.id) call that comes next.
C8_RegisterThenGet ==
    [][ canister = "uuid" =>
        /\ Called("registerUser")
           => LET r == last'.result.val
                  payload == last'.args[1]
              IN /\ last'.result.ok
                 /\ r.username = payload.username
                 /\ r.email = payload.email
                 /\ r.password = payload.password
                 /\ r.resetToken = None
                 /\ r.createdAt = now
                 /\ getUserImpl(userStorage', r.id).result.ok
                 /\ getUserImpl(userStorage', r.id).result.val = r
        /\ (last.op = "registerUser" /\ Called("getUser")
               /\ last'.args[1] = last.result.val.id)
           => (last'.result.ok /\ last'.result.val = last.result.val) ]_vars

\* C8 witness: a registration after the clock has advanced, into a map that
\* already held a record.
C8_Witness ==
    /\ canister = "uuid"
    /\ last.op = "registerUser"
    /\ last.result.ok
    /\ last.result.val.createdAt > 0
    /\ Cardinality(DOMAIN userStorage) > 1

\* the key registerUser stores its record under
RegisteredKey(call) ==
    IF canister = "uuid" THEN call.result.val.id ELSE call.caller

\* C9: in both canisters, a successful registerUser stores its record under a
\* key that holds no record and never held one, and the map then has exactly
\* one record more.
C9_IdsNeverReused ==
    [][ (Called("registerUser") /\ last'.result.ok)
        => /\ RegisteredKey(last') \notin DOMAIN userStorage
           /\ RegisteredKey(last') \notin everKeys
           /\ Cardinality(DOMAIN userStorage')
                = Cardinality(DOMAIN userStorage) + 1 ]_vars

\* requestPasswordReset returned h[1] and later h[2] for one account, the two
\* differ, and resetPassword was not called in between
Superseded(h) == Len(h) = 2 /\ h[1] # h[2]

\* C10: when requestPasswordReset returned t1 and later a different t2 for
\* the same account with no resetPassword in between, the account's
\* resetToken is t2, and a resetPassword(t1, p) call leaves that account's
\* password as it was.
C10_NewTokenReplacesOld ==
    [][ \A k \in Ids :
        /\ (Superseded(issued'[k]) /\ k \in DOMAIN userStorage')
           => userStorage'[k].resetToken = Some(issued'[k][2])
        /\ (Superseded(issued[k]) /\ k \in DOMAIN userStorage
               /\ Called("resetPassword") /\ last'.args[1] = issued[k][1])
           => /\ k \in DOMAIN userStorage'
              /\ userStorage'[k].password = userStorage[k].password ]_vars

\* C10 witness: an account for which tokA and then tokB were returned, while
\* another account still holds tokA.
C10_Witness ==
    \E k \in Ids, j \in DOMAIN userStorage :
        /\ j # k
        /\ issued[k] = <<"tokA", "tokB">>
        /\ userStorage[j].resetToken = Some("tokA")

\* the least of a non-empty set of uuid keys: the first in key order
FirstKey(S) == CHOOSE x \in S : \A y \in S : x <= y

\* the keys whose record has this username and this password
WithCredentials(store, username, password) ==
    {k \in DOMAIN store :
        store[k].username = username /\ store[k].password = password}

\* C11: in the uuid-keyed canister, loginUser(username, password) succeeds
\* exactly when some record has that username and that password, and then
\* returns the first such record in key order; otherwise it returns
\* "Invalid username or password", whether no record has the username or one
\* has it with another password.
C11_LoginFirstMatch ==
    [][ (canister = "uuid" /\ Called("loginUser"))
        => LET M == WithCredentials(userStorage, last'.args[1], last'.args[2])
           IN IF M # {}
              THEN /\ last'.result.ok
                   /\ last'.result.val = userStorage[FirstKey(M)]
              ELSE /\ ~last'.result.ok
                   /\ last'.result.val = <<"Invalid username or password">> ]_vars

\* C11 witness: loginUser returned the second record in key order because the
\* first has the username with another password.
C11_Witness ==
    /\ canister = "uuid"
    /\ last.op = "loginUser"
    /\ last.result.ok
    /\ DOMAIN userStorage = {1, 2}
    /\ last.result.val.id = 2
    /\ userStorage[1].username = last.args[1]
    /\ userStorage[1].password # last.args[2]

\* C12: in the principal-keyed canister, reclaimAccount(account, secret) with
\* the secret of the record under account writes a copy of that record under
\* the caller's key, leaves the record under account and every other key as
\* they were and returns the confirmation string, and a loginUser by that
\* caller, asked then or as the next call, succeeds with a record equal to
\* the one under account; with no record under account or another secret the
\* call returns an error.
C12_ReclaimCopies ==
    [][ /\ (canister = "principal" /\ Called("reclaimAccount"))
           => LET caller == last'.caller
                  account == last'.args[1]
                  secret == last'.args[2]
              IN IF /\ account \in DOMAIN userStorage
                    /\ userStorage[account].secret = secret
                 THEN /\ last'.result.ok
                      /\ last'.result.val =
                           "Your account details have been restored, you can now login with the current Principal ID"
                      /\ DOMAIN userStorage' = DOMAIN userStorage \cup {caller}
                      /\ userStorage'[caller] = userStorage[account]
                      /\ \A k \in DOMAIN userStorage \ {caller} :
                            userStorage'[k] = userStorage[k]
                      /\ LET login == p_loginUserImpl(userStorage', ic_caller(caller)).result
                         IN login.ok /\ login.val = userStorage[account]
                 ELSE ~last'.result.ok
        /\ ( /\ canister = "principal"
             /\ last.op = "reclaimAccount"
             /\ last.result.ok
             /\ Called("loginUser")
             /\ last'.caller = last.caller )
           => /\ last'.result.ok
              /\ last'.result.val = userStorage[last.args[1]] ]_vars

\* C12 witness: a reclaimAccount by a caller other than the account has
\* succeeded while a third key holds a record, and record and copy are both
\* stored.
C12_Witness ==
    /\ canister = "principal"
    /\ last.op = "reclaimAccount"
    /\ last.result.ok
    /\ last.caller # last.args[1]
    /\ Cardinality(DOMAIN userStorage) = 3
    /\ userStorage[last.caller] = userStorage[last.args[1]]

\* C13: in the principal-keyed canister, a successful loginUser leaves the
\* caller's record with loggedIn true and sessionExpiry set (to the time of
\* the call plus the session duration), the state from which one logoutUser
\* succeeds and a second returns "not logged in".
C13_LoginSetsSession ==
    [][ (canister = "principal" /\ Called("loginUser") /\ last'.result.ok)
        => LET user == userStorage'[last'.caller]
           IN /\ "loggedIn" \in DOMAIN user
              /\ user.loggedIn = TRUE
              /\ "sessionExpiry" \in DOMAIN user
              /\ user.sessionExpiry # None ]_vars

\* the keys whose record has this email
WithEmail(store, email) == {k \in DOMAIN store : store[k].email = email}

\* C14: requestPasswordReset(email), when some record has that email, sets
\* resetToken to the token it returns on exactly one record, the first in key
\* order with that email, and changes no other field of it and no other
\* record; when no record has the email it returns
\* "User with the specified email not found" and changes nothing.
C14_RequestSetsFirstMatch ==
    [][ Called("requestPasswordReset")
        => LET M == WithEmail(userStorage, last'.args[1])
           IN IF M # {}
              THEN /\ last'.result.ok
                   /\ last'.result.val \in Tokens
                   /\ userStorage' =
                        [userStorage EXCEPT ![FirstKey(M)].resetToken =
                                                Some(last'.result.val)]
              ELSE /\ ~last'.result.ok
                   /\ last'.result.val = <<"User with the specified email not found">>
                   /\ userStorage' = userStorage ]_vars

\* C14 witness: requestPasswordReset set the token on the second record in
\* key order, the first having another email.
C14_Witness ==
    /\ last.op = "requestPasswordReset"
    /\ last.result.ok
    /\ DOMAIN userStorage = {1, 2}
    /\ userStorage[1].email # last.args[1]
    /\ userStorage[2].email = last.args[1]
    /\ userStorage[2].resetToken = Some(last.result.val)

\* the keys whose record holds this reset token
WithToken(store, token) == {k \in DOMAIN store : store[k].resetToken = Some(token)}

\* C15: a successful resetPassword(t, p) changes exactly one record, the
\* first in key order whose resetToken was t: its password becomes p, its
\* resetToken none, its id, username, email and createdAt stay, and it is the
\* record returned; every other record, another holder of t included, is
\* unchanged.
C15_ResetChangesFirstHolder ==
    [][ (canister = "uuid" /\ Called("resetPassword") /\ last'.result.ok)
        => LET t == last'.args[1]
               p == last'.args[2]
               M == WithToken(userStorage, t)
           IN /\ M # {}
              /\ LET k == FirstKey(M)
                 IN /\ DOMAIN userStorage' = DOMAIN userStorage
                    /\ \A j \in DOMAIN userStorage \ {k} :
                          userStorage'[j] = userStorage[j]
                    /\ userStorage'[k].password = p
                    /\ userStorage'[k].resetToken = None
                    /\ userStorage'[k].id = userStorage[k].id
                    /\ userStorage'[k].username = userStorage[k].username
                    /\ userStorage'[k].email = userStorage[k].email
                    /\ userStorage'[k].createdAt = userStorage[k].createdAt
                    /\ last'.result.val = userStorage'[k] ]_vars

\* C15 witness: resetPassword(t, p) has reset one record and a record later
\* in key order, registered at another time, still holds t.
C15_Witness ==
    /\ canister = "uuid"
    /\ last.op = "resetPassword"
    /\ last.result.ok
    /\ \E k \in DOMAIN userStorage :
          /\ last.result.val.id < k
          /\ userStorage[k].resetToken = Some(last.args[1])
          /\ userStorage[k].createdAt # last.result.val.createdAt

\* C16: in the uuid-keyed canister, deleteUser(id) with a record under id
\* removes that record alone and returns it, so that getUser(id) and a second
\* deleteUser(id), asked then or as the next call, return the not-found
\* error; with no record under id it returns the not-found error and changes
\* nothing.
C16_DeleteRemovesOne ==
    [][ /\ (canister = "uuid" /\ Called("deleteUser"))
           => LET id == last'.args[1]
              IN IF id \in DOMAIN userStorage
                 THEN /\ last'.result.ok
                      /\ last'.result.val = userStorage[id]
                      /\ DOMAIN userStorage' = DOMAIN userStorage \ {id}
                      /\ \A k \in DOMAIN userStorage' :
                            userStorage'[k] = userStorage[k]
                      /\ getUserImpl(userStorage', id).result = Err(NotFoundMsg(id))
                      /\ deleteUserImpl(userStorage', id).result = Err(NotFoundMsg(id))
                 ELSE /\ ~last'.result.ok
                      /\ last'.result.val = NotFoundMsg(id)
                      /\ userStorage' = userStorage
        /\ ( /\ canister = "uuid"
             /\ last.op = "deleteUser"
             /\ last.result.ok
             /\ (Called("getUser") \/ Called("deleteUser"))
             /\ last'.args[1] = last.args[1] )
           => /\ ~last'.result.ok
              /\ last'.result.val = NotFoundMsg(last.args[1])
              /\ userStorage' = userStorage ]_vars

\* C16 witness: deleteUser(id) has removed and returned the record under id
\* while another record stays stored.
C16_Witness ==
    /\ canister = "uuid"
    /\ last.op = "deleteUser"
    /\ last.result.ok
    /\ last.result.val.id = last.args[1]
    /\ last.args[1] \notin DOMAIN userStorage
    /\ userStorage # << >>

\* C17: createdAt is set once: while a key keeps a record, from registerUser
\* until deleteUser, no call changes the createdAt stored under that key.
C17_CreatedAtSetOnce ==
    [][ \A k \in DOMAIN userStorage \cap DOMAIN userStorage' :
           userStorage'[k].createdAt = userStorage[k].createdAt ]_vars

\* C18: in the uuid-keyed canister every record stored under a key k has
\* id = k, in every reachable state.
C18_KeyIsId ==
    canister = "uuid" => \A k \in DOMAIN userStorage : userStorage[k].id = k

\* C18 witness: two records are stored and the call before wrote one of them
\* back (updateUser, changePassword, requestPasswordReset or resetPassword).
C18_Witness ==
    /\ canister = "uuid"
    /\ DOMAIN userStorage = {1, 2}
    /\ last.op \in {"updateUser", "changePassword", "requestPasswordReset", "resetPassword"}
    /\ last.result.ok
    /\ \A k \in DOMAIN userStorage : userStorage[k].id = k

\* C19: in the principal-keyed canister no record is stored under the
\* anonymous principal, in every reachable state.
C19_NoAnonymousRecord ==
    canister = "principal" => Anonymous \notin DOMAIN userStorage

\* the step is a successful changePassword(id, p) or a successful
\* updateUser(id, payload) with a password in the payload
PasswordSet ==
    /\ canister = "uuid"
    /\ \/ Called("changePassword")
       \/ Called("updateUser") /\ last'.args[2].password # ""
    /\ last'.result.ok

\* C20: after changePassword(id, p), or updateUser(id, payload) with a
\* password, on an account that held a reset token t, resetPassword(t, q) no
\* longer overwrites the password of that account.
C20_ChangeInvalidatesToken ==
    [][ PasswordSet
        => LET id == last'.args[1]
           IN \A t \in Tokens, q \in Passwords :
                 userStorage[id].resetToken = Some(t)
                 => resetPasswordImpl(userStorage', t, q).store[id].password =
                      userStorage'[id].password ]_vars

\* C20 as the code has it: changePassword(id, p) and updateUser(id, payload)
\* leave the account's resetToken as it was, so a token t the account held
\* before the change is still redeemed: unless a record earlier in key order
\* holds t too, resetPassword(t, q) succeeds on this account, sets its
\* password to q over the one just set and clears the token.
C20_ChangeKeepsToken ==
    [][ PasswordSet
        => LET id == last'.args[1]
           IN /\ userStorage'[id].resetToken = userStorage[id].resetToken
              /\ \A t \in Tokens, q \in Passwords :
                    ( /\ userStorage[id].resetToken = Some(t)
                      /\ FirstKey(WithToken(userStorage', t)) = id )
                    => LET reset == resetPasswordImpl(userStorage', t, q)
                       IN /\ reset.result.ok
                          /\ reset.result.val.id = id
                          /\ reset.store[id].password = q
                          /\ reset.store[id].resetToken = None ]_vars

\* C20 witness: changePassword has set a new password on an account that
\* holds a reset token issued to it before.
C20_Witness ==
    /\ canister = "uuid"
    /\ last.op = "changePassword"
    /\ last.result.ok
    /\ userStorage[last.args[1]].password = last.args[2]
    /\ userStorage[last.args[1]].resetToken # None
    /\ issued[last.args[1]] # <<>>

=============================================================================
